---------------------------- MODULE Spec2Model ----------------------------
(***************************************************************************)
(* A model of the waveform / feature extraction routines of                *)
(* ephys/clust.py (gentnerlab/ephys-analysis).                             *)
(*                                                                         *)
(* The routines are functions over numpy arrays.  A call of a routine is   *)
(* one action, or one action per loop pass for the routines that loop: it  *)
(* draws the call's inputs (arguments and the contents of the files the    *)
(* routine reads) from small sets, runs the routine as the code does and   *)
(* leaves inputs, locals and the return value in the variables.            *)
(*                                                                         *)
(* Conventions.                                                            *)
(*  - numpy arrays are sequences; numpy index k is position k+1 here.      *)
(*    Index comparisons are invariant under that shift.                    *)
(*  - a float is a record [n, d]: n/d in lowest terms with d > 0 for a     *)
(*    finite non-zero value, 0/1 for +0.0, 0/-1 for -0.0, 1/0 for +inf,    *)
(*    -1/0 for -inf and 0/0 for NaN.  Rounding is not modelled.            *)
(*  - sample times are kept in ticks of 1/new_fs seconds, so that          *)
(*    np.arange(0, t_max, 1/new_fs)[k] is the integer k.                   *)
(***************************************************************************)
EXTENDS Integers, Sequences, FiniteSets, TLC

(***************************************************************************)
(* Bounds of the model.                                                    *)
(***************************************************************************)
\* longest spike shape handed to get_troughpeak / get_width_half_height
MaxLen == 5

\* sample values of a spike shape
Values == {-2, -1, 0, 1, 2}

\* spacing of the sample times (np.arange steps; a negative step gives a
\* decreasing time axis)
Steps == {-1, 1, 2}

\* most channels of a probe
MaxChans == 3

\* values of a mean mask (a mean of masks in [0, 1], scaled)
MaskValues == {0, 1, 2}

\* positions of channels on the probe
Points == {<<0, 0>>, <<1, 0>>, <<0, 3>>}

\* most time samples of a mean waveform
MaxSamples == 2

\* sample values of a mean waveform
WaveValues == {-1, 1}

\* most time samples of a mean waveform handed to get_width
MaxExemplarLen == 4

\* upsampling factors new_fs / fs
Ratios == {1, 2}

\* sample values of an upsampled spike shape
UpValues == {-1, 0, 1}

\* degree k of scipy's UnivariateSpline, which needs more than k samples
SplineOrder == 3

\* cluster identifiers of a block are 1 .. NClusters
NClusters == 2

\* longest cluster_list handed to get_wide_narrow
MaxList == 3

\* most rows of the spikes table handed to compute_cluster_waveforms_fast
MaxSpikes == 4

\* samples of recording 0 in the .kwd file; recording r has RecLen - r
RecLen == 5

\* the cluster, recording and time_samples values of a spikes table
SpikeClusters == {2, 5}
Recordings == {0, 1}
SpikeTimes == {0, 2, 3}

\* channel counts of the .kwd recordings
KwdChans == {1, 2}

\* the signal of a recording: sample t of channel ch is base + slope*t + ch
Signals == {[base |-> 0, slope |-> 1], [base |-> 5, slope |-> -1]}

\* the arguments (before, after)
Windows == {<<0, 0>>, <<1, 1>>}

(***************************************************************************)
(* Floats.                                                                 *)
(***************************************************************************)
Abs(x) == IF x < 0 THEN -x ELSE x

RECURSIVE GCD(_, _)
GCD(a, b) == IF b = 0 THEN a ELSE GCD(b, a % b)

NaN == [n |-> 0, d |-> 0]
PosInf == [n |-> 1, d |-> 0]
NegInf == [n |-> -1, d |-> 0]
PosZero == [n |-> 0, d |-> 1]
NegZero == [n |-> 0, d |-> -1]

\* the float n/d for integers n and d # 0
Frac(n, d) ==
    IF n = 0 THEN PosZero
    ELSE LET g == GCD(Abs(n), Abs(d))
             s == IF d < 0 THEN -1 ELSE 1
         IN  [n |-> (s * n) \div g, d |-> Abs(d) \div g]

F(i) == Frac(i, 1)
Half == Frac(1, 2)

IsNaN(x) == x.n = 0 /\ x.d = 0
IsInf(x) == x.n # 0 /\ x.d = 0
IsZero(x) == x.n = 0 /\ x.d # 0
IsFinite(x) == x.d # 0

\* the sign bit of a float that is not NaN: -1 or 1
SignBit(x) ==
    IF x.n < 0 THEN -1
    ELSE IF x.n > 0 THEN 1
    ELSE IF x.d < 0 THEN -1 ELSE 1

SignedZero(s) == IF s < 0 THEN NegZero ELSE PosZero
SignedInf(s) == IF s < 0 THEN NegInf ELSE PosInf

FNeg(x) ==
    IF IsNaN(x) THEN NaN
    ELSE IF IsZero(x) THEN SignedZero(-SignBit(x))
    ELSE [n |-> -x.n, d |-> x.d]

FAdd(x, y) ==
    IF IsNaN(x) \/ IsNaN(y) THEN NaN
    ELSE IF IsInf(x) /\ IsInf(y) THEN (IF x.n = y.n THEN x ELSE NaN)
    ELSE IF IsInf(x) THEN x
    ELSE IF IsInf(y) THEN y
    ELSE IF IsZero(x) /\ IsZero(y)
         THEN (IF SignBit(x) < 0 /\ SignBit(y) < 0 THEN NegZero ELSE PosZero)
    ELSE Frac(x.n * Abs(y.d) + y.n * Abs(x.d), Abs(x.d) * Abs(y.d))

FSub(x, y) == FAdd(x, FNeg(y))

FDiv(x, y) ==
    IF IsNaN(x) \/ IsNaN(y) THEN NaN
    ELSE IF IsInf(x) /\ IsInf(y) THEN NaN
    ELSE IF IsZero(x) /\ IsZero(y) THEN NaN
    ELSE LET s == SignBit(x) * SignBit(y)
         IN  IF IsInf(x) \/ IsZero(y) THEN SignedInf(s)
             ELSE IF IsZero(x) \/ IsInf(y) THEN SignedZero(s)
             ELSE Frac(x.n * y.d, x.d * y.n)

\* x < y and x == y as IEEE compares them (false when either is NaN,
\* -0.0 == +0.0)
FLt(x, y) ==
    /\ ~IsNaN(x) /\ ~IsNaN(y)
    /\ IF IsInf(x) \/ IsInf(y)
       THEN (IF IsInf(x) /\ IsInf(y) THEN x.n < y.n
             ELSE IF IsInf(x) THEN x.n < 0 ELSE y.n > 0)
       ELSE x.n * Abs(y.d) < y.n * Abs(x.d)

FEq(x, y) ==
    /\ ~IsNaN(x) /\ ~IsNaN(y)
    /\ IF IsInf(x) \/ IsInf(y) THEN x = y
       ELSE x.n * Abs(y.d) = y.n * Abs(x.d)

\* a float used as a condition (np.where): true unless it is zero
Truthy(x) == ~IsZero(x)

(***************************************************************************)
(* numpy on one-dimensional arrays of floats without NaN.                  *)
(***************************************************************************)
Range(s) == {s[k] : k \in DOMAIN s}

\* ndarray.argmin(): the position of the first smallest element
RECURSIVE ArgMinScan(_, _, _)
ArgMinScan(a, k, best) ==
    IF k > Len(a) THEN best
    ELSE ArgMinScan(a, k + 1, IF FLt(a[k], a[best]) THEN k ELSE best)

np_argmin(a) == ArgMinScan(a, 2, 1)

\* ndarray.argmax(): the position of the first largest element
RECURSIVE ArgMaxScan(_, _, _)
ArgMaxScan(a, k, best) ==
    IF k > Len(a) THEN best
    ELSE ArgMaxScan(a, k + 1, IF FLt(a[best], a[k]) THEN k ELSE best)

np_argmax(a) == ArgMaxScan(a, 2, 1)

np_min(a) == a[np_argmin(a)]
np_max(a) == a[np_argmax(a)]

\* np.sign
np_sign(x) ==
    IF IsNaN(x) THEN NaN
    ELSE IF IsZero(x) THEN x
    ELSE F(SignBit(x))

\* np.diff
np_diff(a) == [k \in 1 .. (Len(a) - 1) |-> FSub(a[k + 1], a[k])]

\* np.where(c)[0] for an array c of conditions: the positions that hold,
\* in increasing order
RECURSIVE WhereScan(_, _)
WhereScan(c, k) ==
    IF k > Len(c) THEN << >>
    ELSE (IF c[k] THEN <<k>> ELSE << >>) \o WhereScan(c, k + 1)

np_where(c) == WhereScan(c, 1)

\* the built-ins max and min of a non-empty sequence of integers
RECURSIVE SeqMax(_)
SeqMax(s) ==
    IF Len(s) = 1 THEN s[1]
    ELSE LET r == SeqMax(Tail(s)) IN IF r > s[1] THEN r ELSE s[1]

RECURSIVE SeqMin(_)
SeqMin(s) ==
    IF Len(s) = 1 THEN s[1]
    ELSE LET r == SeqMin(Tail(s)) IN IF r < s[1] THEN r ELSE s[1]

\* a[k:] with k a position of a
SliceFrom(a, k) == SubSeq(a, k, Len(a))

(***************************************************************************)
(* State.                                                                  *)
(***************************************************************************)
VARIABLES
    pc,            \* "idle", or the routine that has been called
    time,          \* argument time of get_troughpeak / get_width_half_height
    shape_arg,     \* the values of spike_shape when the call was made
    spike_shape,   \* the caller's spike_shape array after the call
    trough_peak,   \* get_troughpeak's return value
    width,         \* get_width_half_height's return value
    mean_masks_arr,  \* contents of the cluster's .mean_masks file
    weight_func,   \* argument weight_func of get_cluster_coords
    w,             \* the weight vector
    channels,      \* the probe's channel_groups[0]['channels']
    geometry,      \* the probe's channel_groups[0]['geometry']
    xy,            \* get_cluster_coords' return value
    mean_waveforms,  \* contents of the cluster's .mean_waveforms file
    exemplar,      \* get_spike_exemplar's return value
    ts,            \* get_width: the sample times upsample_spike returned
    up_shape,      \* get_width: the spike shape upsample_spike returned
    sw,            \* get_width's return value, in ticks
    block,         \* get_wide_narrow: what the block's files hold per cluster
    cluster_list,  \* get_wide_narrow's argument cluster_list
    thresh,        \* get_wide_narrow's argument thresh, in ticks
    pos,           \* get_wide_narrow: clusters taken from cluster_list so far
    wide,          \* get_wide_narrow's list wide
    narrow,        \* get_wide_narrow's list narrow
    spikes,        \* compute_cluster_waveforms_fast's argument spikes
    kwd,           \* the data of the recordings in the .kwd file
    window,        \* the arguments <<before, after>>
    gpos,          \* (recording, cluster) groups of spikes handled so far
    counts,        \* the array counts
    waveforms,     \* the array waveforms
    cluster_map    \* the dict cluster_map

shape_vars == <<time, shape_arg, spike_shape, trough_peak, width>>
mask_vars == <<mean_masks_arr, weight_func, w, channels, geometry, xy,
               mean_waveforms, exemplar>>
width_vars == <<ts, up_shape, sw>>
wn_vars == <<block, cluster_list, thresh, pos, wide, narrow>>
wf_vars == <<spikes, kwd, window, gpos, counts, waveforms, cluster_map>>
vars == <<pc, shape_vars, mask_vars, width_vars, wn_vars, wf_vars>>

(***************************************************************************)
(* get_troughpeak (clust.py 174-194).                                      *)
(***************************************************************************)
get_troughpeak_argmax_whole(t, shape) ==
    LET trough_i == np_argmin(shape)
        peak_i == np_argmax(shape)
    IN  <<t[trough_i], t[peak_i]>>

get_troughpeak(t, shape) ==
    LET trough_i == np_argmin(shape)
        peak_i == np_argmax(SliceFrom(shape, trough_i)) + (trough_i - 1)
    IN  <<t[trough_i], t[peak_i]>>

(***************************************************************************)
(* get_width_half_height (clust.py 197-236).  The record holds the return  *)
(* value and the caller's array after the in-place division of line 218    *)
(* (line 219 rebinds the local name and leaves the caller's array alone).  *)
(***************************************************************************)
HalfHeightCrossings(shape) ==
    LET neg_min == FNeg(np_min(shape))
        normed == [k \in DOMAIN shape |-> FDiv(shape[k], neg_min)]
        offset == [k \in DOMAIN shape |-> FAdd(normed[k], Half)]
        signs == [k \in DOMAIN shape |-> np_sign(offset[k])]
        d == np_diff(signs)
    IN  np_where([k \in DOMAIN d |-> Truthy(d[k])])

get_width_half_height_inclusive(t, shape) ==
    LET tp == get_troughpeak(t, shape)
        trough == tp[1]
        troughind == np_where([k \in DOMAIN t |-> t[k] = trough])[1]
        neg_min == FNeg(np_min(shape))
        normed == [k \in DOMAIN shape |-> FDiv(shape[k], neg_min)]
        zero_crossings == HalfHeightCrossings(shape)
        i == [q \in DOMAIN zero_crossings |-> zero_crossings[q] <= troughind]
        j == [q \in DOMAIN zero_crossings |-> zero_crossings[q] >= troughind]
    IN  [shape |-> normed,
         width |->
            IF (TRUE \in Range(i)) /\ (TRUE \in Range(j))
            THEN LET pre_ind == zero_crossings[SeqMax(np_where(i))]
                     post_ind == zero_crossings[SeqMin(np_where(j))]
                 IN  F(t[post_ind] - t[pre_ind])
            ELSE NaN]

get_width_half_height(t, shape) ==
    LET tp == get_troughpeak(t, shape)
        trough == tp[1]
        troughind == np_where([k \in DOMAIN t |-> t[k] = trough])[1]
        neg_min == FNeg(np_min(shape))
        normed == [k \in DOMAIN shape |-> FDiv(shape[k], neg_min)]
        zero_crossings == HalfHeightCrossings(shape)
        i == [q \in DOMAIN zero_crossings |-> zero_crossings[q] < troughind]
        j == [q \in DOMAIN zero_crossings |-> zero_crossings[q] > troughind]
    IN  [shape |-> normed,
         width |->
            IF (TRUE \in Range(i)) /\ (TRUE \in Range(j))
            THEN LET pre_ind == zero_crossings[SeqMax(np_where(i))]
                     post_ind == zero_crossings[SeqMin(np_where(j))]
                 IN  F(t[post_ind] - t[pre_ind])
            ELSE NaN]


(***************************************************************************)
(* mean_masks_w and max_masks_w (clust.py 72-111), as functions of the     *)
(* contents of the cluster's .mean_masks file.                             *)
(***************************************************************************)
mean_masks_w(masks) == masks

max_masks_w_first_only(masks) ==
    LET v == mean_masks_w(masks)
    IN  [k \in DOMAIN v |-> k = np_argmax(v)]

max_masks_w(masks) ==
    LET v == mean_masks_w(masks)
    IN  [k \in DOMAIN v |-> FEq(v[k], np_max(v))]

\* the weight function named wfn applied to the cluster's mean masks
WeightFunc(wfn, masks) ==
    IF wfn = "max_masks_w" THEN max_masks_w(masks) ELSE mean_masks_w(masks)

\* the weight vector as numbers: numpy takes the booleans of max_masks_w
\* for 1 and 0
AsFloats(wfn, wv) ==
    IF wfn = "max_masks_w"
    THEN [k \in DOMAIN wv |-> IF wv[k] THEN F(1) ELSE F(0)]
    ELSE wv

\* ndarray.sum() and np.dot of a vector with a column
RECURSIVE SumUpTo(_, _)
SumUpTo(a, k) == IF k = 0 THEN F(0) ELSE FAdd(SumUpTo(a, k - 1), a[k])

np_sum(a) == SumUpTo(a, Len(a))

FMul(x, y) ==
    IF IsNaN(x) \/ IsNaN(y) THEN NaN
    ELSE IF (IsInf(x) /\ IsZero(y)) \/ (IsZero(x) /\ IsInf(y)) THEN NaN
    ELSE IF IsInf(x) \/ IsInf(y) THEN SignedInf(SignBit(x) * SignBit(y))
    ELSE IF IsZero(x) \/ IsZero(y) THEN SignedZero(SignBit(x) * SignBit(y))
    ELSE Frac(x.n * y.n, x.d * y.d)

np_dot(a, b) == np_sum([k \in DOMAIN a |-> FMul(a[k], b[k])])

(***************************************************************************)
(* get_cluster_coords (clust.py 114-142).  wfn names weight_func (None     *)
(* stands for max_masks_w), masks is the cluster's .mean_masks file, chans *)
(* and geom are the probe's channels and geometry.                         *)
(***************************************************************************)
get_cluster_coords_geometry_order(wfn, masks, chans, geom) ==
    LET wf == AsFloats(wfn, WeightFunc(wfn, masks))
        coords == [k \in DOMAIN chans |-> geom[k - 1]]
    IN  [c \in 1 .. 2 |->
            FDiv(np_dot(wf, [k \in DOMAIN coords |-> F(coords[k][c])]), np_sum(wf))]

get_cluster_coords(wfn, masks, chans, geom) ==
    LET wf == AsFloats(wfn, WeightFunc(wfn, masks))
        coords == [k \in DOMAIN chans |-> geom[chans[k]]]
    IN  [c \in 1 .. 2 |->
            FDiv(np_dot(wf, [k \in DOMAIN coords |-> F(coords[k][c])]), np_sum(wf))]

(***************************************************************************)
(* get_mean_waveform_array and get_spike_exemplar (clust.py 265-310).      *)
(***************************************************************************)
\* np.fromfile(...).reshape((-1, nch)): row r, column c of the array
get_mean_waveform_array(flat, nch) ==
    [r \in 1 .. (Len(flat) \div nch) |->
        [c \in 1 .. nch |-> flat[(r - 1) * nch + c]]]

\* arr[:, c]
Column(arr, c) == [r \in DOMAIN arr |-> arr[r][c]]

get_spike_exemplar_column_major(flat, masks, chans) ==
    LET rows == Len(flat) \div Len(chans)
    IN  [r \in 1 .. rows |-> flat[(np_argmax(masks) - 1) * rows + r]]

get_spike_exemplar(flat, masks, chans) ==
    LET arr == get_mean_waveform_array(flat, Len(chans))
    IN  Column(arr, np_argmax(masks))


(***************************************************************************)
(* upsample_spike (clust.py 147-171) and get_width (clust.py 239-262).     *)
(* ratio is new_fs / fs.  spl is what scipy's smoothing spline through the *)
(* shape gives at the sample times ts: the library is outside the          *)
(* repository, and spl may be any array as long as ts.                     *)
(***************************************************************************)
UpsampledLen(shape, ratio) == Len(shape) * ratio

upsample_spike(shape, ratio, spl) ==
    [ts |-> [k \in 1 .. UpsampledLen(shape, ratio) |-> k - 1],
     shape |-> spl]

\* lines 260-262, from the exemplar on: the record holds the locals and the
\* return value
get_width_trough_minus_peak(ex, ratio, spl) ==
    LET up == upsample_spike(ex, ratio, spl)
        tp == get_troughpeak(up.ts, up.shape)
    IN  [ts |-> up.ts, shape |-> up.shape, tp |-> tp, width |-> tp[1] - tp[2]]

get_width_of_exemplar(ex, ratio, spl) ==
    LET up == upsample_spike(ex, ratio, spl)
        tp == get_troughpeak(up.ts, up.shape)
    IN  [ts |-> up.ts, shape |-> up.shape, tp |-> tp, width |-> tp[2] - tp[1]]

\* get_width(block_path, cluster) for the files data of one cluster
get_width(data) ==
    get_width_of_exemplar(get_spike_exemplar(data.mean_waveforms, data.mean_masks,
                                             data.channels),
                          data.ratio, data.spl).width

(***************************************************************************)
(* get_wide_narrow (clust.py 313-339): one pass of the loop body for the   *)
(* cluster at position k of the list.                                      *)
(***************************************************************************)
wide_narrow_step_prepend(blk, lst, th, k, wd, nw) ==
    LET cluster == lst[k]
        width_c == get_width(blk[cluster])
    IN  IF width_c >= th THEN [wide |-> <<cluster>> \o wd, narrow |-> nw]
        ELSE [wide |-> wd, narrow |-> Append(nw, cluster)]

wide_narrow_step(blk, lst, th, k, wd, nw) ==
    LET cluster == lst[k]
        width_c == get_width(blk[cluster])
    IN  IF width_c >= th THEN [wide |-> Append(wd, cluster), narrow |-> nw]
        ELSE [wide |-> wd, narrow |-> Append(nw, cluster)]


(***************************************************************************)
(* compute_cluster_waveforms_fast (clust.py 452-508).  spikes is a         *)
(* sequence of rows [cluster, recording, time_samples]; data[r][t][ch] is  *)
(* sample t (from 0) of channel ch of recording r.                         *)
(***************************************************************************)
\* the elements of a finite set of integers in increasing order
RECURSIVE SortedSeq(_)
SortedSeq(S) ==
    IF S = {} THEN << >>
    ELSE LET m == CHOOSE x \in S : \A y \in S : x <= y
         IN  <<m>> \o SortedSeq(S \ {m})

\* spikes['cluster'].unique()
UniqueClusters(sp) == {sp[k].cluster : k \in DOMAIN sp}

\* lines 491-493: cluster -> index in the sorted unique clusters, from 0
MakeClusterMap(sp) ==
    LET sorted == SortedSeq(UniqueClusters(sp))
    IN  [c \in UniqueClusters(sp) |-> (CHOOSE k \in DOMAIN sorted : sorted[k] = c) - 1]

\* the keys of spikes.groupby('recording') and, within a recording, of
\* groupby('cluster'), in the order the loops of lines 495-497 visit them
RECURSIVE GroupsOf(_, _)
GroupsOf(sp, recs) ==
    IF recs = << >> THEN << >>
    ELSE LET r == Head(recs)
             cl == SortedSeq({sp[k].cluster : k \in {q \in DOMAIN sp : sp[q].recording = r}})
         IN  [k \in DOMAIN cl |-> <<r, cl[k]>>] \o GroupsOf(sp, Tail(recs))

Groups(sp) == GroupsOf(sp, SortedSeq({sp[k].recording : k \in DOMAIN sp}))

WaveLength(win) == win[1] + 1 + win[2]

\* the number of samples of a recording: recording_data.shape[0]
Samples(rec) == Cardinality(DOMAIN rec)

\* lines 498-500: the window starts of the group's spikes that are kept
RECURSIVE StartsScan(_, _, _, _, _, _)
StartsScan(sp, k, g, before, wl, n) ==
    IF k > Len(sp) THEN << >>
    ELSE LET start == sp[k].time_samples - before
             keep == /\ sp[k].recording = g[1]
                     /\ sp[k].cluster = g[2]
                     /\ start > 0
                     /\ start + wl < n
         IN  (IF keep THEN <<start>> ELSE << >>) \o StartsScan(sp, k + 1, g, before, wl, n)

\* np.sum(recording_data[starts + i, :], axis=0)[ch]
RECURSIVE SumRows(_, _, _, _)
SumRows(rec, starts, i, ch) ==
    IF starts = << >> THEN 0
    ELSE rec[Head(starts) + i][ch] + SumRows(rec, Tail(starts), i, ch)

\* lines 498-505 for the group g = <<recording, cluster>>
waveforms_group_counts_overwritten(sp, data, win, cmap, g, cnt, wf) ==
    LET rec == data[g[1]]
        wl == WaveLength(win)
        starts == StartsScan(sp, 1, g, win[1], wl, Samples(rec))
        idx == cmap[g[2]] + 1
    IN  [counts |-> [cnt EXCEPT ![idx] = F(Len(starts))],
         waveforms |->
            [wf EXCEPT ![idx] =
                [i \in 1 .. wl |->
                    [ch \in DOMAIN wf[idx][i] |->
                        FAdd(wf[idx][i][ch], F(SumRows(rec, starts, i - 1, ch)))]]]]

waveforms_group(sp, data, win, cmap, g, cnt, wf) ==
    LET rec == data[g[1]]
        wl == WaveLength(win)
        starts == StartsScan(sp, 1, g, win[1], wl, Samples(rec))
        idx == cmap[g[2]] + 1
    IN  [counts |-> [cnt EXCEPT ![idx] = FAdd(cnt[idx], F(Len(starts)))],
         waveforms |->
            [wf EXCEPT ![idx] =
                [i \in 1 .. wl |->
                    [ch \in DOMAIN wf[idx][i] |->
                        FAdd(wf[idx][i][ch], F(SumRows(rec, starts, i - 1, ch)))]]]]

\* line 507: waveforms /= counts.reshape((num_clusters, 1, 1))
waveforms_divide(cnt, wf) ==
    [idx \in DOMAIN wf |->
        [i \in DOMAIN wf[idx] |->
            [ch \in DOMAIN wf[idx][i] |-> FDiv(wf[idx][i][ch], cnt[idx])]]]

(***************************************************************************)
(* Inputs of the spike-shape routines.                                     *)
(***************************************************************************)
SeqsOfLen(S, n) == [1 .. n -> S]

Shapes == UNION {SeqsOfLen(Values, n) : n \in 1 .. MaxLen}

\* sample times k * step
TimeAxis(n, step) == [k \in 1 .. n |-> (k - 1) * step]

FloatArray(s) == [k \in DOMAIN s |-> F(s[k])]

Init ==
    /\ pc = "idle"
    /\ time = << >>
    /\ shape_arg = << >>
    /\ spike_shape = << >>
    /\ trough_peak = << >>
    /\ width = NaN
    /\ mean_masks_arr = << >>
    /\ weight_func = "none"
    /\ w = << >>
    /\ channels = << >>
    /\ geometry = << >>
    /\ xy = << >>
    /\ mean_waveforms = << >>
    /\ exemplar = << >>
    /\ ts = << >>
    /\ up_shape = << >>
    /\ sw = 0
    /\ block = << >>
    /\ cluster_list = << >>
    /\ thresh = 0
    /\ pos = 0
    /\ wide = << >>
    /\ narrow = << >>
    /\ spikes = << >>
    /\ kwd = << >>
    /\ window = << >>
    /\ gpos = 0
    /\ counts = << >>
    /\ waveforms = << >>
    /\ cluster_map = << >>

CallGetTroughpeak ==
    /\ pc = "idle"
    /\ \E s \in Shapes, step \in Steps :
          /\ time' = TimeAxis(Len(s), step)
          /\ shape_arg' = FloatArray(s)
          /\ spike_shape' = shape_arg'
          /\ trough_peak' = get_troughpeak(time', shape_arg')
    /\ pc' = "get_troughpeak"
    /\ UNCHANGED <<width, mask_vars, width_vars, wn_vars, wf_vars>>

CallGetWidthHalfHeight ==
    /\ pc = "idle"
    /\ \E s \in Shapes, step \in Steps :
          LET t == TimeAxis(Len(s), step)
              r == get_width_half_height(t, FloatArray(s))
          IN  /\ time' = t
              /\ shape_arg' = FloatArray(s)
              /\ spike_shape' = r.shape
              /\ width' = r.width
    /\ pc' = "get_width_half_height"
    /\ UNCHANGED <<trough_peak, mask_vars, width_vars, wn_vars, wf_vars>>

NextShape ==
    \/ CallGetTroughpeak
    \/ CallGetWidthHalfHeight

SpecShape == Init /\ [][NextShape]_vars

(***************************************************************************)
(* Inputs and calls of the mask and probe routines.                        *)
(***************************************************************************)
\* the .mean_masks file of a cluster on a probe of nch channels
MaskFiles(nch) == {FloatArray(m) : m \in SeqsOfLen(MaskValues, nch)}

\* channel ids are 0 .. nch-1; the probe lists them in any order
ChannelOrders(nch) ==
    {p \in SeqsOfLen(0 .. (nch - 1), nch) : \A a, b \in 1 .. nch : p[a] = p[b] => a = b}

Geometries(nch) == [0 .. (nch - 1) -> Points]

\* the .mean_waveforms file: rows time samples of nch floats each
WaveformFiles(rows, nch) ==
    {FloatArray(m) : m \in SeqsOfLen(WaveValues, rows * nch)}

CallMaxMasksW ==
    /\ pc = "idle"
    /\ \E nch \in 1 .. MaxChans :
          \E masks \in MaskFiles(nch) :
              /\ mean_masks_arr' = masks
              /\ w' = max_masks_w(masks)
    /\ pc' = "max_masks_w"
    /\ UNCHANGED <<shape_vars, weight_func, channels, geometry, xy,
                   mean_waveforms, exemplar, width_vars, wn_vars, wf_vars>>

CallGetClusterCoords ==
    /\ pc = "idle"
    /\ \E nch \in 1 .. MaxChans, wfn \in {"max_masks_w", "mean_masks_w"} :
          \E masks \in MaskFiles(nch), chans \in ChannelOrders(nch),
             geom \in Geometries(nch) :
              /\ weight_func' = wfn
              /\ mean_masks_arr' = masks
              /\ w' = WeightFunc(wfn, masks)
              /\ channels' = chans
              /\ geometry' = geom
              /\ xy' = get_cluster_coords(wfn, masks, chans, geom)
    /\ pc' = "get_cluster_coords"
    /\ UNCHANGED <<shape_vars, mean_waveforms, exemplar, width_vars, wn_vars, wf_vars>>

CallGetSpikeExemplar ==
    /\ pc = "idle"
    /\ \E nch \in 1 .. MaxChans, rows \in 1 .. MaxSamples :
          \E masks \in MaskFiles(nch), flat \in WaveformFiles(rows, nch) :
              /\ mean_masks_arr' = masks
              /\ mean_waveforms' = flat
              /\ channels' = [k \in 1 .. nch |-> k - 1]
              /\ exemplar' = get_spike_exemplar(flat, masks, channels')
    /\ pc' = "get_spike_exemplar"
    /\ UNCHANGED <<shape_vars, weight_func, w, geometry, xy, width_vars, wn_vars, wf_vars>>

NextMasks ==
    \/ CallMaxMasksW
    \/ CallGetClusterCoords
    \/ CallGetSpikeExemplar

SpecMasks == Init /\ [][NextMasks]_vars


(***************************************************************************)
(* Inputs and steps of get_width and get_wide_narrow.                      *)
(***************************************************************************)
\* a mean waveform of rows samples: a trough, then a peak
Biphasic(rows) == [k \in 1 .. rows |-> IF k = 2 THEN -1 ELSE IF k = 3 THEN 1 ELSE 0]

\* the .mean_waveforms file with the waveform v on channel position c and
\* silence on the other channels
SpikeOnChannel(v, nch, c) ==
    [i \in 1 .. (Len(v) * nch) |->
        IF ((i - 1) % nch) + 1 = c THEN F(v[((i - 1) \div nch) + 1]) ELSE F(0)]

SingleChannelFiles(rows, nch) ==
    {SpikeOnChannel(Biphasic(rows), nch, c) : c \in 1 .. nch}

\* get_width, line 258: exemplar = get_spike_exemplar(block_path, cluster).
\* The files get_spike_exemplar read are its own locals and gone on return.
GetWidthExemplar ==
    /\ pc = "idle"
    /\ \E nch \in 1 .. MaxChans, rows \in 1 .. MaxExemplarLen :
          \E masks \in MaskFiles(nch), flat \in SingleChannelFiles(rows, nch) :
              exemplar' = get_spike_exemplar(flat, masks, [k \in 1 .. nch |-> k - 1])
    /\ pc' = "get_width:exemplar"
    /\ UNCHANGED <<shape_vars, mean_masks_arr, weight_func, w, channels, geometry,
                   xy, mean_waveforms, width_vars, wn_vars, wf_vars>>

\* get_width, line 260, on an exemplar too short for the spline: scipy
\* raises and get_width returns nothing
GetWidthSplineError ==
    /\ pc = "get_width:exemplar"
    /\ Len(exemplar) <= SplineOrder
    /\ pc' = "get_width:raised"
    /\ UNCHANGED <<shape_vars, mask_vars, width_vars, wn_vars, wf_vars>>

\* get_width, lines 260-262.  The exemplar is not read again.
GetWidthMeasure ==
    /\ pc = "get_width:exemplar"
    /\ Len(exemplar) > SplineOrder
    /\ \E ratio \in Ratios :
          \E spl \in SeqsOfLen(UpValues, UpsampledLen(exemplar, ratio)) :
              LET r == get_width_of_exemplar(exemplar, ratio, FloatArray(spl))
              IN  /\ ts' = r.ts
                  /\ up_shape' = r.shape
                  /\ trough_peak' = r.tp
                  /\ sw' = r.width
    /\ exemplar' = << >>
    /\ pc' = "get_width"
    /\ UNCHANGED <<time, shape_arg, spike_shape, width, mean_masks_arr, weight_func,
                   w, channels, geometry, xy, mean_waveforms, wn_vars, wf_vars>>

\* the upsampled exemplar of a spike whose peak comes wd samples after its
\* trough
SpikeOfWidth(wd) ==
    [k \in 1 .. (SplineOrder + 1) |-> IF wd > 0 /\ k = wd + 1 THEN 1 ELSE -1]

\* the files of a cluster with such a spike on a one-channel probe,
\* sampled at new_fs
ClusterData(wd) ==
    [mean_masks |-> <<F(1)>>,
     mean_waveforms |-> SpikeOnChannel(Biphasic(SplineOrder + 1), 1, 1),
     channels |-> <<0>>,
     ratio |-> 1,
     spl |-> FloatArray(SpikeOfWidth(wd))]

Clusters == 1 .. NClusters

Blocks == {[c \in Clusters |-> ClusterData(wds[c])] : wds \in [Clusters -> 0 .. SplineOrder]}

ClusterLists == UNION {SeqsOfLen(Clusters, n) : n \in 0 .. MaxList}

\* get_wide_narrow, lines 331-332
CallGetWideNarrow ==
    /\ pc = "idle"
    /\ \E blk \in Blocks, lst \in ClusterLists, th \in 0 .. (SplineOrder + 1) :
          /\ block' = blk
          /\ cluster_list' = lst
          /\ thresh' = th
    /\ pos' = 0
    /\ wide' = << >>
    /\ narrow' = << >>
    /\ pc' = "get_wide_narrow:loop"
    /\ UNCHANGED <<shape_vars, mask_vars, width_vars, wf_vars>>

\* get_wide_narrow, lines 333-338: the loop body for the next cluster
WideNarrowLoop ==
    /\ pc = "get_wide_narrow:loop"
    /\ pos < Len(cluster_list)
    /\ LET r == wide_narrow_step(block, cluster_list, thresh, pos + 1, wide, narrow)
       IN  /\ wide' = r.wide
           /\ narrow' = r.narrow
    /\ pos' = pos + 1
    /\ UNCHANGED <<pc, shape_vars, mask_vars, width_vars, block, cluster_list, thresh,
                   wf_vars>>

\* get_wide_narrow, line 339
WideNarrowReturn ==
    /\ pc = "get_wide_narrow:loop"
    /\ pos = Len(cluster_list)
    /\ pc' = "get_wide_narrow"
    /\ UNCHANGED <<shape_vars, mask_vars, width_vars, wn_vars, wf_vars>>

NextWidth ==
    \/ GetWidthExemplar
    \/ GetWidthSplineError
    \/ GetWidthMeasure

SpecWidth == Init /\ [][NextWidth]_vars

NextWideNarrow ==
    \/ CallGetWideNarrow
    \/ WideNarrowLoop
    \/ WideNarrowReturn

SpecWideNarrow == Init /\ [][NextWideNarrow]_vars


(***************************************************************************)
(* Inputs and steps of compute_cluster_waveforms_fast.                     *)
(***************************************************************************)
SpikeRows ==
    [cluster : SpikeClusters, recording : Recordings, time_samples : SpikeTimes]

\* tables are taken in one row order: the result does not read the order
RowRank(row) == (row.recording * 100) + (row.time_samples * 10) + row.cluster

SpikeTables ==
    UNION {{sp \in SeqsOfLen(SpikeRows, n) :
                \A k \in 1 .. (n - 1) : RowRank(sp[k]) <= RowRank(sp[k + 1])} :
           n \in 0 .. MaxSpikes}

Recording(sig, len, nch) ==
    [t \in 0 .. (len - 1) |-> [ch \in 1 .. nch |-> sig.base + (sig.slope * t) + (ch - 1)]]

KwdFiles ==
    {[r \in Recordings |-> Recording(sigs[r], RecLen - r, nch)] :
        sigs \in [Recordings -> Signals], nch \in KwdChans}

\* lines 477-493, with n_chans left at -1 and read from the recordings
CallComputeClusterWaveformsFast ==
    /\ pc = "idle"
    /\ \E sp \in SpikeTables, data \in KwdFiles, win \in Windows :
          LET n_chans == Cardinality(DOMAIN data[0][0])
              num_clusters == Cardinality(UniqueClusters(sp))
          IN  /\ spikes' = sp
              /\ kwd' = data
              /\ window' = win
              /\ counts' = [idx \in 1 .. num_clusters |-> F(0)]
              /\ waveforms' = [idx \in 1 .. num_clusters |->
                                  [i \in 1 .. WaveLength(win) |->
                                      [ch \in 1 .. n_chans |-> F(0)]]]
              /\ cluster_map' = MakeClusterMap(sp)
    /\ gpos' = 0
    /\ pc' = "compute_cluster_waveforms_fast:loop"
    /\ UNCHANGED <<shape_vars, mask_vars, width_vars, wn_vars>>

\* lines 495-505: the loop body for the next (recording, cluster) group
WaveformsGroup ==
    /\ pc = "compute_cluster_waveforms_fast:loop"
    /\ gpos < Len(Groups(spikes))
    /\ LET r == waveforms_group(spikes, kwd, window, cluster_map,
                                Groups(spikes)[gpos + 1], counts, waveforms)
       IN  /\ counts' = r.counts
           /\ waveforms' = r.waveforms
    /\ gpos' = gpos + 1
    /\ UNCHANGED <<pc, shape_vars, mask_vars, width_vars, wn_vars, spikes, kwd, window,
                   cluster_map>>

\* lines 507-508
WaveformsReturn ==
    /\ pc = "compute_cluster_waveforms_fast:loop"
    /\ gpos = Len(Groups(spikes))
    /\ waveforms' = waveforms_divide(counts, waveforms)
    /\ pc' = "compute_cluster_waveforms_fast"
    /\ UNCHANGED <<shape_vars, mask_vars, width_vars, wn_vars, spikes, kwd, window,
                   gpos, counts, cluster_map>>

NextWaveforms ==
    \/ CallComputeClusterWaveformsFast
    \/ WaveformsGroup
    \/ WaveformsReturn

SpecWaveforms == Init /\ [][NextWaveforms]_vars

(***************************************************************************)
(* Properties of the spike-shape routines.                                 *)
(***************************************************************************)
\* k is the first position of the smallest sample of the array arr of
\* integer-valued floats
FirstMinOf(arr, k) ==
    /\ \A q \in DOMAIN arr : arr[k].n <= arr[q].n
    /\ \A q \in 1 .. (k - 1) : arr[k].n < arr[q].n

\* k is the first position of the largest sample of arr among positions a ..
FirstMaxFromOf(arr, a, k) ==
    /\ k >= a
    /\ \A q \in a .. Len(arr) : arr[q].n <= arr[k].n
    /\ \A q \in a .. (k - 1) : arr[q].n < arr[k].n

\* the sample values of the call, as integers
Sample(k) == shape_arg[k].n

IsFirstMin(k) == FirstMinOf(shape_arg, k)
IsFirstMaxFrom(a, k) == FirstMaxFromOf(shape_arg, a, k)

\* C1: get_troughpeak(time, spike_shape) returns (time[a], time[b]) with a
\* the first index of the global minimum of spike_shape and b the first
\* index of the maximum of spike_shape over the indices >= a; so b >= a, and
\* the peak never comes from a sample that precedes the trough.
C1_TroughThenPeak ==
    pc = "get_troughpeak" =>
        \E a, b \in DOMAIN shape_arg :
            /\ IsFirstMin(a)
            /\ IsFirstMaxFrom(a, b)
            /\ b >= a
            /\ trough_peak = <<time[a], time[b]>>

\* a call of get_troughpeak on a shape whose global maximum lies before the
\* trough and whose peak lies after it
C1_Witness ==
    /\ pc = "get_troughpeak"
    /\ \E a, b, g \in DOMAIN shape_arg :
          /\ IsFirstMin(a)
          /\ IsFirstMaxFrom(a, b)
          /\ b > a
          /\ g < a
          /\ Sample(g) > Sample(b)
          /\ trough_peak = <<time[a], time[b]>>

\* the sign of v / (-m) + 0.5 for integer samples v >= m, worked out by
\* hand: for m < 0 it is the sign of 2v - m; for m > 0 the quotient is at
\* most -1; for m = 0 the division by -0.0 gives NaN for v = 0 and -inf
\* otherwise
OffsetSign(v, m) ==
    IF m < 0 THEN (IF 2 * v > m THEN "pos" ELSE IF 2 * v = m THEN "zero" ELSE "neg")
    ELSE IF m > 0 THEN "neg"
    ELSE IF v = 0 THEN "nan" ELSE "neg"

\* the offset shape changes sign between positions k and k + 1 (a NaN
\* sample differs from every neighbour, as np.diff and np.where see it)
Crossing(k) ==
    LET m == Sample(CHOOSE a \in DOMAIN shape_arg : IsFirstMin(a))
        l == OffsetSign(Sample(k), m)
        r == OffsetSign(Sample(k + 1), m)
    IN  l = "nan" \/ r = "nan" \/ l # r

CrossingsBefore(a) == {k \in 1 .. (Len(shape_arg) - 1) : Crossing(k) /\ k < a}
CrossingsAfter(a) == {k \in 1 .. (Len(shape_arg) - 1) : Crossing(k) /\ k > a}

SetMax(S) == CHOOSE x \in S : \A y \in S : y <= x
SetMin(S) == CHOOSE x \in S : \A y \in S : x <= y

Increasing(t) == \A k \in 1 .. (Len(t) - 1) : t[k] < t[k + 1]

\* C8: get_width_half_height normalises the shape to its minimum, offsets
\* it by 0.5 and takes the sign changes of the result.  With a crossing
\* index below the trough index and one above it, it returns
\* time[post] - time[pre], pre the last crossing index below the trough
\* index and post the first one above it, which is positive when time is
\* increasing; with no crossing on either side it returns NaN.
C8_HalfHeightWidth ==
    pc = "get_width_half_height" =>
        LET a == CHOOSE k \in DOMAIN shape_arg : IsFirstMin(k)
            before == CrossingsBefore(a)
            after == CrossingsAfter(a)
        IN  IF before # {} /\ after # {}
            THEN /\ width = F(time[SetMin(after)] - time[SetMax(before)])
                 /\ Increasing(time) => FLt(F(0), width)
            ELSE IsNaN(width)

\* a call that finds crossings on both sides of the trough, several of them
\* before it, and returns the time between the two nearest ones
C8_Witness ==
    /\ pc = "get_width_half_height"
    /\ Increasing(time)
    /\ LET a == CHOOSE k \in DOMAIN shape_arg : IsFirstMin(k)
       IN  /\ Cardinality(CrossingsBefore(a)) + Cardinality(CrossingsAfter(a)) > 2
           /\ CrossingsAfter(a) # {}
           /\ CrossingsBefore(a) # {}
           /\ width = F(time[SetMin(CrossingsAfter(a))] - time[SetMax(CrossingsBefore(a))])
           /\ FLt(F(0), width)

(***************************************************************************)
(* Properties of the mask and probe routines.                              *)
(***************************************************************************)
\* the mean mask of channel position k, as an integer
Mask(k) == mean_masks_arr[k].n

\* the positions whose mean mask is the largest
MaxMaskPositions ==
    {k \in DOMAIN mean_masks_arr : \A q \in DOMAIN mean_masks_arr : Mask(q) <= Mask(k)}

\* C5: max_masks_w returns one entry per channel, true (weight 1) exactly
\* for the channels whose mean mask equals the maximum and false (weight 0)
\* for the others; tied channels get the same weight and at least one
\* channel is selected.
C5_MaxMaskWeights ==
    pc = "max_masks_w" =>
        /\ DOMAIN w = DOMAIN mean_masks_arr
        /\ \A k \in DOMAIN w : w[k] \in BOOLEAN /\ (w[k] <=> k \in MaxMaskPositions)
        /\ \A k, q \in DOMAIN w : Mask(k) = Mask(q) => w[k] = w[q]
        /\ \E k \in DOMAIN w : w[k]

\* a call of max_masks_w on masks with a tie at the maximum and a smaller
\* channel
C5_Witness ==
    /\ pc = "max_masks_w"
    /\ Cardinality(MaxMaskPositions) = 2
    /\ Cardinality({k \in DOMAIN w : w[k]}) = 2
    /\ \E k \in DOMAIN w : ~w[k]

\* the coordinate c of the channel at position k of the probe's channel list
Coord(k, c) == geometry[channels[k]][c]

\* sums over a set of channel positions
RECURSIVE SumOver(_, _)
SumOver(S, f) ==
    IF S = {} THEN 0
    ELSE LET k == CHOOSE x \in S : TRUE IN f[k] + SumOver(S \ {k}, f)

\* the float x is the quotient num / den of integers, den > 0
IsQuotient(x, num, den) == IsFinite(x) /\ x.n * den = num * Abs(x.d)

\* the weight the claim gives position k
ClaimedWeight(k) ==
    IF weight_func = "max_masks_w"
    THEN (IF k \in MaxMaskPositions THEN 1 ELSE 0)
    ELSE Mask(k)

\* C6: get_cluster_coords returns sum_i w[i]*coords[i] / sum_i w[i] with
\* coords in the probe's channel order; with the default weight function
\* that is the unweighted centroid of the channels with the maximal mean
\* mask, and that channel's own (x, y) when the maximum is unique.
C6_WeightedCentroid ==
    pc = "get_cluster_coords" =>
        LET all == DOMAIN mean_masks_arr
            total == SumOver(all, [k \in all |-> ClaimedWeight(k)])
        IN  /\ total > 0 =>
                \A c \in 1 .. 2 :
                    IsQuotient(xy[c],
                               SumOver(all, [k \in all |-> ClaimedWeight(k) * Coord(k, c)]),
                               total)
            /\ weight_func = "max_masks_w" =>
                /\ \A c \in 1 .. 2 :
                      IsQuotient(xy[c],
                                 SumOver(MaxMaskPositions, [k \in all |-> Coord(k, c)]),
                                 Cardinality(MaxMaskPositions))
                /\ \A k \in all :
                      MaxMaskPositions = {k} => xy = [c \in 1 .. 2 |-> F(Coord(k, c))]

\* a call with the default weights, the probe listing its channels out of
\* numeric order, and a unique maximal channel that is not the first listed
C6_Witness ==
    /\ pc = "get_cluster_coords"
    /\ weight_func = "max_masks_w"
    /\ channels = <<2, 0, 1>>
    /\ geometry[0] # geometry[1] /\ geometry[0] # geometry[2]
    /\ MaxMaskPositions = {2}
    /\ xy = [c \in 1 .. 2 |-> F(geometry[0][c])]

\* a call with the default weights and two tied channels, with the centroid
\* halfway between them
C6_TieWitness ==
    /\ pc = "get_cluster_coords"
    /\ weight_func = "max_masks_w"
    /\ channels = <<0, 1, 2>>
    /\ MaxMaskPositions = {1, 3}
    /\ geometry[0] = <<1, 0>> /\ geometry[2] = <<0, 3>>
    /\ xy = <<Frac(1, 2), Frac(3, 2)>>

\* C7: get_spike_exemplar returns the column of the (time_samples,
\* channels) mean-waveform array at the index of the largest mean mask
\* (the lowest such index on ties), and max_masks_w gives weight to that
\* index.
C7_ExemplarColumn ==
    pc = "get_spike_exemplar" =>
        LET p == SetMin(MaxMaskPositions)
            nch == Len(channels)
        IN  /\ Len(exemplar) * nch = Len(mean_waveforms)
            /\ \A r \in DOMAIN exemplar : exemplar[r] = mean_waveforms[(r - 1) * nch + p]
            /\ max_masks_w(mean_masks_arr)[p]

\* a call where two channels tie for the largest mean mask, neither being
\* the first channel, and the waveforms of the channels differ
C7_Witness ==
    /\ pc = "get_spike_exemplar"
    /\ Len(exemplar) = 2
    /\ Len(channels) = 3
    /\ MaxMaskPositions = {2, 3}
    /\ mean_waveforms[1] # mean_waveforms[2]
    /\ mean_waveforms[2] # mean_waveforms[3]
    /\ exemplar = <<mean_waveforms[2], mean_waveforms[5]>>

(***************************************************************************)
(* Properties of get_width and get_wide_narrow.                            *)
(***************************************************************************)
\* C2: get_width returns the peak time minus the trough time of the
\* upsampled exemplar; the width is never negative, and it is zero exactly
\* when every upsampled sample from the trough to the end equals the
\* minimum value.
C2_WidthNonNegative ==
    pc = "get_width" =>
        \E a, b \in DOMAIN up_shape :
            /\ FirstMinOf(up_shape, a)
            /\ FirstMaxFromOf(up_shape, a, b)
            /\ sw = ts[b] - ts[a]
            /\ sw >= 0
            /\ sw = 0 <=> \A k \in a .. Len(up_shape) : up_shape[k] = up_shape[a]

\* a get_width call on an upsampled shape that falls to its minimum and
\* stays there to the end, over several samples: width zero
C2_Witness ==
    /\ pc = "get_width"
    /\ sw = 0
    /\ \E a \in DOMAIN up_shape :
          /\ FirstMinOf(up_shape, a)
          /\ a > 1
          /\ a < Len(up_shape)
          /\ Len(up_shape) > Len(Biphasic(SplineOrder + 1))

\* the elements of lst at the positions S, in the order of lst
RECURSIVE SubseqAt(_, _)
SubseqAt(lst, S) ==
    IF S = {} THEN << >>
    ELSE LET m == SetMax(S) IN Append(SubseqAt(lst, S \ {m}), lst[m])

\* C3: get_wide_narrow partitions cluster_list: every element, counted with
\* multiplicity, is in exactly one of the two returned lists, nothing else
\* is in them, and each list keeps the order the clusters had in
\* cluster_list.
C3_Partition ==
    pc = "get_wide_narrow" =>
        \E W \in SUBSET (DOMAIN cluster_list) :
            /\ wide = SubseqAt(cluster_list, W)
            /\ narrow = SubseqAt(cluster_list, (DOMAIN cluster_list) \ W)

\* a return of get_wide_narrow for a list that names a wide cluster twice,
\* around a narrow one and after another wide one
C3_Witness ==
    /\ pc = "get_wide_narrow"
    /\ Len(cluster_list) = 3
    /\ \E c, e \in Clusters :
          /\ c # e
          /\ \/ cluster_list = <<c, e, c>> /\ wide = <<c, c>> /\ narrow = <<e>>
             \/ cluster_list = <<c, e, e>> /\ wide = <<c, e, e>> /\ narrow = << >>

\* the width get_width gives a cluster of the block
WidthOf(c) == get_width(block[c])

\* the elements of lst that satisfy the test, in order
RECURSIVE Filter(_, _)
Filter(lst, keep) ==
    IF lst = << >> THEN << >>
    ELSE (IF keep[Head(lst)] THEN <<Head(lst)>> ELSE << >>) \o Filter(Tail(lst), keep)

\* C4: 'wide' is the list of clusters with width greater than the threshold
\* and 'narrow' the list of clusters with width less than the threshold; a
\* cluster whose width equals thresh is not in 'wide'.
C4_StrictlyWider ==
    pc = "get_wide_narrow" =>
        /\ wide = Filter(cluster_list, [c \in Clusters |-> WidthOf(c) > thresh])
        /\ narrow = Filter(cluster_list, [c \in Clusters |-> WidthOf(c) < thresh])
        /\ \A k \in DOMAIN wide : WidthOf(wide[k]) # thresh

\* what the loop does with a width equal to thresh: 'wide' holds the
\* clusters whose width is at least thresh, 'narrow' the others
WideIsAtLeastThresh ==
    pc = "get_wide_narrow" =>
        /\ wide = Filter(cluster_list, [c \in Clusters |-> WidthOf(c) >= thresh])
        /\ narrow = Filter(cluster_list, [c \in Clusters |-> WidthOf(c) < thresh])

(***************************************************************************)
(* Properties of compute_cluster_waveforms_fast.                           *)
(***************************************************************************)
\* the rows of spikes of cluster c whose window lies inside their recording
\* as lines 499-500 ask
Contributing(c) ==
    {k \in DOMAIN spikes :
        /\ spikes[k].cluster = c
        /\ spikes[k].time_samples - window[1] > 0
        /\ (spikes[k].time_samples - window[1]) + WaveLength(window)
               < Samples(kwd[spikes[k].recording])}

\* sample i of the window of row k on channel ch
WindowSample(k, i, ch) ==
    kwd[spikes[k].recording][(spikes[k].time_samples - window[1]) + i][ch]

\* C9: for every cluster c with a contributing spike,
\* waveforms[cluster_map[c], i, ch] is the sum over all recordings and all
\* contributing spikes of c of data_recording[t - before + i, ch], divided
\* by the number of contributing spikes of c pooled across the recordings,
\* for every 0 <= i < before+1+after and every channel.
C9_PooledMean ==
    pc = "compute_cluster_waveforms_fast" =>
        \A c \in UniqueClusters(spikes) :
            Contributing(c) # {} =>
                \A i \in 0 .. (WaveLength(window) - 1), ch \in DOMAIN kwd[0][0] :
                    IsQuotient(waveforms[cluster_map[c] + 1][i + 1][ch],
                               SumOver(Contributing(c),
                                       [k \in DOMAIN spikes |-> WindowSample(k, i, ch)]),
                               Cardinality(Contributing(c)))

\* a return where the second cluster has two contributing spikes in one
\* recording and one in the other, and its pooled mean differs from the
\* mean of the two per-recording means
C9_Witness ==
    /\ pc = "compute_cluster_waveforms_fast"
    /\ Cardinality(UniqueClusters(spikes)) = 2
    /\ \E c \in UniqueClusters(spikes) :
          LET in0 == {k \in Contributing(c) : spikes[k].recording = 0}
              in1 == {k \in Contributing(c) : spikes[k].recording = 1}
              s0 == SumOver(in0, [k \in DOMAIN spikes |-> WindowSample(k, 0, 1)])
              s1 == SumOver(in1, [k \in DOMAIN spikes |-> WindowSample(k, 0, 1)])
          IN  /\ cluster_map[c] = 1
              /\ Cardinality(in0) = 2
              /\ Cardinality(in1) = 1
              /\ s0 # 2 * s1
              /\ IsQuotient(waveforms[2][1][1], s0 + s1, 3)


=============================================================================
